---- MODULE Spec2Model ----
(***************************************************************************)
(* Batch image-search service: bounded-concurrency batch dispatch with     *)
(* credential rotation (src/main.go, the category-aware program) and the   *)
(* earlier single-credential program (src/unnamed/part_000).               *)
(*                                                                         *)
(* A Go string is a sequence of tokens; a token is one whitespace          *)
(* character or one maximal run of non-space characters.  The Cyrillic     *)
(* category labels of src/main.go:55-64 are written transliterated.        *)
(***************************************************************************)
EXTENDS Integers, Sequences, FiniteSets, TLC

VARIABLES
    variant,     \* which program runs: "category" (main.go) or "simple" (part_000)
    environ,     \* the process environment read by os.Getenv
    provider,    \* the search provider: the responses each credential may get
    googleKeys,  \* main.go:37
    keyIndex,    \* main.go:38
    keyMu,       \* main.go:39, the goroutine holding it or NoOne
    req,         \* per handler: the HTTP request being served
    hpc,         \* per handler: position in batchHandler
    idx,         \* per handler: the loop variable i of "for i := range req.Queries"
    results,     \* per handler: results map (main.go:139)
    mu,          \* per handler: mu (main.go:140), the goroutine holding it or NoOne
    wg,          \* per handler: wg counter (main.go:141)
    sem,         \* per handler: number of elements buffered in sem (main.go:142)
    status,      \* per handler: HTTP status written, 0 while none
    body,        \* per handler: response body written
    g,           \* per item goroutine: its position and locals
    handed       \* history: the last credentials returned by nextKey, in keyMu order

vars == <<variant, environ, provider, googleKeys, keyIndex, keyMu, req, hpc, idx,
          results, mu, wg, sem, status, body, g, handed>>

config == <<variant, environ, provider, googleKeys, req>>

(***************************************************************************)
(* Bounds of the model.                                                    *)
(***************************************************************************)
MaxItems == 3
MaxSpawn == 2
MaxKeys == 2
SemItems == 5
MaxHandlers == 2

(***************************************************************************)
(* Program constants.                                                      *)
(***************************************************************************)
SemCap == 4

NoOne == <<0, 0>>
\* a response body: the text of http.Error, or the JSON-encoded map
Body(t, m) == [text |-> t, map |-> m]
NoBody == Body("", <<>>)

(***************************************************************************)
(* strings.TrimSpace                                                       *)
(***************************************************************************)
WhiteSpace == {" ", "\t"}

RECURSIVE TrimLeft(_)
TrimLeft(s) ==
    IF s # <<>> /\ Head(s) \in WhiteSpace THEN TrimLeft(Tail(s)) ELSE s

RECURSIVE TrimRight(_)
TrimRight(s) ==
    IF s # <<>> /\ s[Len(s)] \in WhiteSpace
    THEN TrimRight(SubSeq(s, 1, Len(s) - 1))
    ELSE s

TrimSpace(s) == TrimRight(TrimLeft(s))

(***************************************************************************)
(* CATEGORY -> CX MAP                                                      *)
(***************************************************************************)
categoryCX ==
    (<<"Nedvizhimost">> :> "CX_REAL_ESTATE")
    @@ (<<"Transport">> :> "CX_TRANSPORT")
    @@ (<<"Spec/selhoz", " ", "tehnika">> :> "CX_SPECIAL_TECH")
    @@ (<<"Oborudovanie">> :> "CX_EQUIPMENT")
    @@ (<<"Stroitelstvo", " ", "i", " ", "remont">> :> "CX_CONSTRUCTION")
    @@ (<<"Biznes">> :> "CX_BUSINESS")
    @@ (<<"Odezhda", " ", "i", " ", "obuv">> :> "CX_FASHION")
    @@ (<<"Tovary", " ", "dlya", " ", "doma">> :> "CX_HOME_GOODS")
    @@ (<<"Bytovaya", " ", "i", " ", "orgtehnika">> :> "CX_ELECTRONICS")
    @@ (<<"Inoe">> :> "CX_MISC")

Getenv(name) == IF name \in DOMAIN environ THEN environ[name] ELSE ""

\* cxEnv, ok := categoryCX[category]; cx := os.Getenv(cxEnv): the scope id of
\* a trimmed label, "" when the item is skipped
ResolveCX(category) ==
    IF category \in DOMAIN categoryCX THEN Getenv(categoryCX[category]) ELSE ""

(***************************************************************************)
(* The search provider.  A response is what one client.Get gives back:    *)
(* err (transport failure), the HTTP status, whether the body contains     *)
(* the text "quota", whether the body parses as a GoogleResponse, and the  *)
(* link of each of its items.                                              *)
(***************************************************************************)
Response(e, st, qt, js, ls) ==
    [err |-> e, status |-> st, quota |-> qt, json |-> js, links |-> ls]

TransportError == Response(TRUE, 0, FALSE, FALSE, <<>>)
TooManyRequests == Response(FALSE, 429, FALSE, TRUE, <<>>)
QuotaExceeded == Response(FALSE, 403, TRUE, TRUE, <<>>)
ServerError == Response(FALSE, 500, FALSE, TRUE, <<>>)
BadPayload == Response(FALSE, 200, FALSE, FALSE, <<>>)
OkLinks == Response(FALSE, 200, FALSE, TRUE, <<"u1", "u2">>)
OkEmpty == Response(FALSE, 200, FALSE, TRUE, <<>>)
\* HTTP 200 with a payload of two items in whose text "quota" occurs
OkQuotaText == Response(FALSE, 200, TRUE, TRUE, <<"u1", "u2">>)
\* HTTP 200 with a payload of six items
OkMany == Response(FALSE, 200, FALSE, TRUE, <<"u1", "u2", "u3", "u4", "u5", "u6">>)

AllResponses ==
    {TransportError, TooManyRequests, QuotaExceeded, ServerError, BadPayload,
     OkLinks, OkEmpty, OkQuotaText, OkMany}

\* a response that is neither a success nor a retryable failure: an HTTP status
\* other than 200 and 429 with a body that does not signal quota
IsFatal(r) == ~r.err /\ r.status \notin {200, 429} /\ ~r.quota

ClassifyQuotaFatal(r) ==
    IF r.err THEN "retry"
    ELSE IF r.status # 200 THEN "fatal"
    ELSE IF ~r.json THEN "parse"
    ELSE "ok"

\* main.go:88-106: what getImages does with one response
Classify(r) ==
    IF r.err THEN "retry"
    ELSE IF r.status = 429 \/ r.quota THEN "retry"
    ELSE IF r.status # 200 THEN "fatal"
    ELSE IF ~r.json THEN "parse"
    ELSE "ok"

\* part_000:43-59: what the single-credential getImages does with one response
SimpleClassify(r) ==
    IF r.err THEN "transport"
    ELSE IF r.status # 200 THEN "fatal"
    ELSE IF ~r.json THEN "parse"
    ELSE "ok"

ErrExhausted == "all GOOGLE_KEYS exhausted"
ErrGoogle == "google error"
ErrJson == "json"
ErrTransport == "transport"
ErrNotSet == "GOOGLE_CX or GOOGLE_KEY not set"

(***************************************************************************)
(* Handlers and item goroutines.                                           *)
(***************************************************************************)
Handlers == DOMAIN req

Goroutines == {w \in Handlers \X (1 .. MaxItems + SemItems) : w[2] <= Len(req[w[1]].Queries)}

Unborn ==
    [pc |-> "unborn", q |-> <<>>, cx |-> "", i |-> 0, key |-> "",
     imgs |-> <<>>, err |-> "", attempts |-> 0, fatal |-> FALSE, tried |-> {}]

MismatchShort(r) == Len(r.Queries) > Len(r.Categories)

\* main.go:134
Mismatch(r) == Len(r.Queries) # Len(r.Categories)

SkipItemNever(h, i) == FALSE

SkipItemUnknownOnly(h, i) ==
    IF variant = "category"
    THEN TrimSpace(req[h].Categories[i]) \notin DOMAIN categoryCX
    ELSE TrimSpace(req[h].Queries[i]) = <<>>

\* main.go:144-156 and part_000:86-90: the item at index i is skipped
SkipItem(h, i) ==
    IF variant = "category"
    THEN ResolveCX(TrimSpace(req[h].Categories[i])) = ""
    ELSE TrimSpace(req[h].Queries[i]) = <<>>

\* main.go:122-143
batchHandlerStart(h) ==
    /\ hpc[h] = "start"
    /\ IF req[h].method = "OPTIONS"
       THEN /\ hpc' = [hpc EXCEPT ![h] = "done"]
            /\ status' = [status EXCEPT ![h] = 200]
            /\ body' = body
       ELSE IF ~req[h].json
       THEN /\ hpc' = [hpc EXCEPT ![h] = "done"]
            /\ status' = [status EXCEPT ![h] = 400]
            /\ body' = [body EXCEPT ![h] = Body("invalid json", <<>>)]
       ELSE IF variant = "category" /\ Mismatch(req[h])
       THEN /\ hpc' = [hpc EXCEPT ![h] = "done"]
            /\ status' = [status EXCEPT ![h] = 400]
            /\ body' = [body EXCEPT ![h] = Body("queries and categories count mismatch", <<>>)]
       ELSE /\ hpc' = [hpc EXCEPT ![h] = IF req[h].Queries = <<>> THEN "wait" ELSE "loop"]
            /\ UNCHANGED <<status, body>>
    /\ UNCHANGED <<config, keyIndex, keyMu, idx, results, mu, wg, sem, g, handed>>

\* main.go:144-173: one iteration of the loop over req.Queries
batchHandlerLoop(h) ==
    /\ hpc[h] = "loop"
    /\ LET i == idx[h]
           query == TrimSpace(req[h].Queries[i])
       IN  /\ IF SkipItem(h, i)
              THEN UNCHANGED <<wg, g>>
              ELSE /\ wg' = [wg EXCEPT ![h] = @ + 1]
                   /\ g' = [g EXCEPT ![<<h, i>>] =
                              [Unborn EXCEPT
                                 !.pc = "sem",
                                 !.q = query,
                                 !.cx = IF variant = "category"
                                        THEN ResolveCX(TrimSpace(req[h].Categories[i]))
                                        ELSE ""]]
           /\ idx' = [idx EXCEPT ![h] = i + 1]
           /\ hpc' = [hpc EXCEPT ![h] = IF i + 1 > Len(req[h].Queries) THEN "wait" ELSE "loop"]
    /\ UNCHANGED <<config, keyIndex, keyMu, results, mu, sem, status, body, handed>>

WaitReturnsAtOnce(h) == TRUE

\* main.go:175: wg.Wait() returns
WaitReturns(h) == wg[h] = 0

batchHandlerWait(h) ==
    /\ hpc[h] = "wait"
    /\ WaitReturns(h)
    /\ hpc' = [hpc EXCEPT ![h] = "encode"]
    /\ UNCHANGED <<config, keyIndex, keyMu, idx, results, mu, wg, sem, status, body, g, handed>>

\* main.go:176-177
batchHandlerEncode(h) ==
    /\ hpc[h] = "encode"
    /\ status' = [status EXCEPT ![h] = 200]
    /\ body' = [body EXCEPT ![h] = Body("", results[h])]
    /\ hpc' = [hpc EXCEPT ![h] = "done"]
    /\ UNCHANGED <<config, keyIndex, keyMu, idx, results, mu, wg, sem, g, handed>>

(***************************************************************************)
(* The item goroutine, main.go:159-172 and part_000:93-107.                *)
(***************************************************************************)
SemFullOffByOne(h) == sem[h] > SemCap

\* sem <- struct{}{} blocks while the channel buffer is full
SemFull(h) == sem[h] >= SemCap

semAcquire(w) ==
    /\ g[w].pc = "sem"
    /\ ~SemFull(w[1])
    /\ sem' = [sem EXCEPT ![w[1]] = @ + 1]
    /\ g' = [g EXCEPT ![w].pc = IF variant = "category" THEN "getImages" ELSE "simpleGet"]
    /\ UNCHANGED <<config, keyIndex, keyMu, hpc, idx, results, mu, wg, status, body, handed>>

AfterSearchAlwaysStore(err) == "mu"

AfterSearchNoRelease(err) == IF err = "" THEN "mu" ELSE "wgDone"

AfterSearchNoDelay(err) == IF err = "" THEN "mu" ELSE "release"

\* main.go:165: if err == nil the goroutine records the result, else it goes
\* on to its delay
AfterSearch(err) == IF err = "" THEN "mu" ELSE "sleep"

\* getImages returns (imgs, err) to the goroutine; the locals of the call
\* (i, key) and its history (attempts, tried) end with it
Return(l, err, imgs) ==
    [l EXCEPT !.pc = AfterSearch(err), !.err = err, !.imgs = imgs,
              !.i = 0, !.key = "", !.attempts = 0, !.tried = {}]

MoreKeysInclusive(i) == i <= Len(googleKeys)

\* main.go:72: the loop condition of getImages
MoreKeys(i) == i < Len(googleKeys)

KeyMuNotHeld == TRUE

\* main.go:43: keyMu.Lock() blocks while another goroutine holds keyMu
KeyMuFree == keyMu = NoOne

\* main.go:72-73 and 43: the loop goes on and nextKey takes keyMu
nextKeyLock(w) ==
    /\ variant = "category"
    /\ g[w].pc = "getImages"
    /\ MoreKeys(g[w].i)
    /\ KeyMuFree
    /\ keyMu' = w
    /\ g' = [g EXCEPT ![w].pc = "nextKey"]
    /\ UNCHANGED <<config, keyIndex, hpc, idx, results, mu, wg, sem, status, body, handed>>

NextIndexStuck(k, n) == k % n

NextIndexNoWrap(k, n) == k + 1

\* main.go:46
NextIndex(k, n) == (k + 1) % n

\* history: the credentials of the last len(googleKeys) + 1 calls of nextKey
Window(h) ==
    IF Len(h) > Len(googleKeys) + 1 THEN SubSeq(h, 2, Len(h)) ELSE h

\* main.go:45-47 and 75-87: nextKey reads and advances the cursor, releases
\* keyMu and returns; getImages sends the request with that credential
nextKeyBody(w) ==
    /\ g[w].pc = "nextKey"
    /\ keyMu = w
    /\ LET key == googleKeys[keyIndex + 1]
       IN  /\ g' = [g EXCEPT ![w].pc = "request", ![w].key = key,
                             ![w].attempts = @ + 1, ![w].tried = @ \cup {key}]
           /\ handed' = Window(Append(handed, [pos |-> keyIndex, key |-> key]))
    /\ keyIndex' = NextIndex(keyIndex, Len(googleKeys))
    /\ keyMu' = NoOne
    /\ UNCHANGED <<config, hpc, idx, results, mu, wg, sem, status, body>>

\* main.go:115: the loop of getImages ends without a result
getImagesExhausted(w) ==
    /\ variant = "category"
    /\ g[w].pc = "getImages"
    /\ ~MoreKeys(g[w].i)
    /\ g' = [g EXCEPT ![w] = Return(@, ErrExhausted, <<>>)]
    /\ UNCHANGED <<config, keyIndex, keyMu, hpc, idx, results, mu, wg, sem, status, body, handed>>

\* main.go:87-113 and 164-165: the response arrives and getImages handles it
getImagesResponse(w) ==
    /\ variant = "category"
    /\ g[w].pc = "request"
    /\ \E r \in provider[g[w].key] :
         LET c == Classify(r)
             seen == [g[w] EXCEPT !.fatal = @ \/ IsFatal(r)]
         IN  g' = [g EXCEPT ![w] =
                     IF c = "retry" THEN [seen EXCEPT !.pc = "getImages", !.i = @ + 1, !.key = ""]
                     ELSE IF c = "fatal" THEN Return(seen, ErrGoogle, <<>>)
                     ELSE IF c = "parse" THEN Return(seen, ErrJson, <<>>)
                     ELSE Return(seen, "", r.links)]
    /\ UNCHANGED <<config, keyIndex, keyMu, hpc, idx, results, mu, wg, sem, status, body, handed>>

\* part_000:32-43: the single-credential getImages reads its configuration
\* and sends the request
simpleGetImages(w) ==
    /\ variant = "simple"
    /\ g[w].pc = "simpleGet"
    /\ g' = [g EXCEPT ![w] =
               IF Getenv("GOOGLE_CX") = "" \/ Getenv("GOOGLE_KEY") = ""
               THEN Return(@, ErrNotSet, <<>>)
               ELSE [@ EXCEPT !.pc = "request", !.key = Getenv("GOOGLE_KEY"),
                              !.cx = Getenv("GOOGLE_CX"), !.attempts = 1]]
    /\ UNCHANGED <<config, keyIndex, keyMu, hpc, idx, results, mu, wg, sem, status, body, handed>>

\* part_000:43-66 and 98-99
simpleResponse(w) ==
    /\ variant = "simple"
    /\ g[w].pc = "request"
    /\ \E r \in provider[g[w].key] :
         LET c == SimpleClassify(r)
         IN  g' = [g EXCEPT ![w] =
                     IF c = "transport" THEN Return(@, ErrTransport, <<>>)
                     ELSE IF c = "fatal" THEN Return(@, ErrGoogle, <<>>)
                     ELSE IF c = "parse" THEN Return(@, ErrJson, <<>>)
                     ELSE Return(@, "", r.links)]
    /\ UNCHANGED <<config, keyIndex, keyMu, hpc, idx, results, mu, wg, sem, status, body, handed>>

\* main.go:166: mu.Lock()
muLock(w) ==
    /\ g[w].pc = "mu"
    /\ mu[w[1]] = NoOne
    /\ mu' = [mu EXCEPT ![w[1]] = w]
    /\ g' = [g EXCEPT ![w].pc = "store"]
    /\ UNCHANGED <<config, keyIndex, keyMu, hpc, idx, results, wg, sem, status, body, handed>>

\* main.go:167-168: results[q] = imgs; mu.Unlock()
resultsStore(w) ==
    /\ g[w].pc = "store"
    /\ mu[w[1]] = w
    /\ results' = [results EXCEPT ![w[1]] = (g[w].q :> g[w].imgs) @@ @]
    /\ mu' = [mu EXCEPT ![w[1]] = NoOne]
    /\ g' = [g EXCEPT ![w].pc = "sleep", ![w].imgs = <<>>]
    /\ UNCHANGED <<config, keyIndex, keyMu, hpc, idx, wg, sem, status, body, handed>>

\* main.go:171: time.Sleep elapses
sleepDone(w) ==
    /\ g[w].pc = "sleep"
    /\ g' = [g EXCEPT ![w].pc = "release"]
    /\ UNCHANGED <<config, keyIndex, keyMu, hpc, idx, results, mu, wg, sem, status, body, handed>>

\* main.go:162: the deferred <-sem
semRelease(w) ==
    /\ g[w].pc = "release"
    /\ sem' = [sem EXCEPT ![w[1]] = @ - 1]
    /\ g' = [g EXCEPT ![w].pc = "wgDone"]
    /\ UNCHANGED <<config, keyIndex, keyMu, hpc, idx, results, mu, wg, status, body, handed>>

\* main.go:160: the deferred wg.Done()
wgDone(w) ==
    /\ g[w].pc = "wgDone"
    /\ wg' = [wg EXCEPT ![w[1]] = @ - 1]
    /\ g' = [g EXCEPT ![w].pc = "exit"]
    /\ UNCHANGED <<config, keyIndex, keyMu, hpc, idx, results, mu, sem, status, body, handed>>

Next ==
    \/ \E h \in Handlers : batchHandlerStart(h)
    \/ \E h \in Handlers : batchHandlerLoop(h)
    \/ \E h \in Handlers : batchHandlerWait(h)
    \/ \E h \in Handlers : batchHandlerEncode(h)
    \/ \E w \in Goroutines : semAcquire(w)
    \/ \E w \in Goroutines : nextKeyLock(w)
    \/ \E w \in Goroutines : nextKeyBody(w)
    \/ \E w \in Goroutines : getImagesExhausted(w)
    \/ \E w \in Goroutines : getImagesResponse(w)
    \/ \E w \in Goroutines : simpleGetImages(w)
    \/ \E w \in Goroutines : simpleResponse(w)
    \/ \E w \in Goroutines : muLock(w)
    \/ \E w \in Goroutines : resultsStore(w)
    \/ \E w \in Goroutines : sleepDone(w)
    \/ \E w \in Goroutines : semRelease(w)
    \/ \E w \in Goroutines : wgDone(w)

(***************************************************************************)
(* Inputs and configurations.                                              *)
(***************************************************************************)
Post(qs, cs) == [method |-> "POST", json |-> TRUE, Queries |-> qs, Categories |-> cs]
Options == [method |-> "OPTIONS", json |-> TRUE, Queries |-> <<>>, Categories |-> <<>>]
InvalidJson == [method |-> "POST", json |-> FALSE, Queries |-> <<>>, Categories |-> <<>>]

\* an item of a batch: a query and its category label
Item(q, c) == [q |-> q, c |-> c]

Chair == Item(<<"chair">>, <<"Transport">>)
Lamp == Item(<<" ", "floor", " ", "lamp", "\t">>, <<" ", "Spec/selhoz", " ", "tehnika", " ">>)
Blank == Item(<<" ">>, <<"Transport">>)
Empty == Item(<<>>, <<"Transport">>)
SofaUnknown == Item(<<"sofa">>, <<"Mebel">>)
DeskUnset == Item(<<"desk">>, <<"Biznes">>)

\* every kind of item
AllItems == {Chair, Lamp, Blank, Empty, SofaUnknown, DeskUnset}

\* the items of the batches of several kinds: a padded query, an empty one,
\* an unknown category and a category without a configured scope
Items == {Lamp, Empty, SofaUnknown, DeskUnset}


RECURSIVE SeqsUpTo(_, _)
SeqsUpTo(S, n) ==
    IF n = 0 THEN {<<>>}
    ELSE LET shorter == SeqsUpTo(S, n - 1)
         IN  shorter \cup {Append(s, x) : s \in shorter, x \in S}

BatchOf(items) ==
    Post([k \in 1 .. Len(items) |-> items[k].q], [k \in 1 .. Len(items) |-> items[k].c])

Environment ==
    ("CX_TRANSPORT" :> "cx-transport") @@ ("CX_SPECIAL_TECH" :> "cx-tech")
    @@ ("CX_BUSINESS" :> "") @@ ("GOOGLE_CX" :> "cx") @@ ("GOOGLE_KEY" :> "k1")

\* GOOGLE_KEYS holds the first n of these credentials
Pool(n) == SubSeq(<<"k1", "k2", "k3", "k4">>, 1, n)

Range(f) == {f[x] : x \in DOMAIN f}

\* a configuration: the program, the provider, the credential pool with the
\* position of its cursor, and the request each handler serves
Config(v, p, keys, k, r) ==
    [variant |-> v, provider |-> p, googleKeys |-> keys, keyIndex |-> k, req |-> r]

Start(c) ==
    /\ variant = c.variant
    /\ environ = Environment
    /\ provider = c.provider
    /\ googleKeys = c.googleKeys
    /\ keyIndex = c.keyIndex
    /\ keyMu = NoOne
    /\ req = c.req
    /\ hpc = [h \in DOMAIN req |-> "start"]
    /\ idx = [h \in DOMAIN req |-> 1]
    /\ results = [h \in DOMAIN req |-> <<>>]
    /\ mu = [h \in DOMAIN req |-> NoOne]
    /\ wg = [h \in DOMAIN req |-> 0]
    /\ sem = [h \in DOMAIN req |-> 0]
    /\ status = [h \in DOMAIN req |-> 0]
    /\ body = [h \in DOMAIN req |-> NoBody]
    /\ g = [w \in Goroutines |-> Unborn]
    /\ handed = <<>>

\* the providers of one kind, for the credentials in use: "any" may answer
\* any request with any failure or with two links, "ok" serves every request, "quota" limits every
\* request, "rotate" limits the first credential and serves the others, and
\* the "fixed" ones give each credential one answer
Providers(kind, keys) ==
    IF kind = "any" THEN {[k \in keys |-> AllResponses \ {OkEmpty, OkMany}]}
    ELSE IF kind = "ok" THEN {[k \in keys |-> {OkLinks}]}
    ELSE IF kind = "quota" THEN {[k \in keys |-> {TooManyRequests}]}
    ELSE IF kind = "rotate"
    THEN {[k \in keys |-> IF k = "k1" THEN {TooManyRequests} ELSE {OkLinks}]}
    ELSE [keys -> {{r} : r \in AllResponses}]

\* the configurations of the category-aware program: every pool of 1 .. n
\* credentials, with the cursor where main leaves it (0) or, with `moved`, at
\* any position earlier batches may have left it
CategoryConfigs(kind, n, moved, requests) ==
    UNION {{Config("category", p, Pool(m), k, r) :
              p \in Providers(kind, Range(Pool(m))),
              k \in IF moved THEN 0 .. m - 1 ELSE {0},
              r \in requests} :
             m \in 1 .. n}

SimpleConfigs(kind, requests) ==
    {Config("simple", p, <<>>, 0, r) :
       p \in Providers(kind, {Environment["GOOGLE_KEY"]}), r \in requests}

\* the item starts a goroutine under program v
Spawns(v, it) ==
    IF v = "category"
    THEN /\ TrimSpace(it.c) \in DOMAIN categoryCX
         /\ categoryCX[TrimSpace(it.c)] \in DOMAIN Environment
         /\ Environment[categoryCX[TrimSpace(it.c)]] # ""
    ELSE TrimSpace(it.q) # <<>>

\* the batches of up to n of the given items that start at most MaxSpawn
\* goroutines under program v
Batches(v, of, n) ==
    {items \in SeqsUpTo(of, n) :
       Cardinality({k \in 1 .. Len(items) : Spawns(v, items[k])}) <= MaxSpawn}

Malformed ==
    {Options, InvalidJson, Post(<<<<"chair">>>>, <<>>),
     Post(<<<<"chair">>>>, <<<<"Transport">>, <<"Transport">>>>)}

Requests(batches) ==
    {[h \in {1} |-> r] : r \in Malformed \cup {BatchOf(items) : items \in batches}}

Repeat(it, n) == [k \in 1 .. n |-> it]

\* the batches of up to n items that are "chair"s, then possibly one "floor
\* lamp", then "sofa"s of an unknown category: a query that may repeat, a
\* second query and skipped items.  The goroutines of a batch differ in their
\* item alone, so the order in which they are started is left out.
Grouped(n) ==
    {Repeat(Chair, t[1]) \o Repeat(Lamp, t[2]) \o Repeat(SofaUnknown, t[3]) :
       t \in {u \in (0 .. n) \X {0, 1} \X (0 .. n) : u[1] + u[2] + u[3] <= n}}

(***************************************************************************)
(* Batches of up to MaxSpawn items, all goroutines concurrent, against a   *)
(* provider that may answer anything.                                      *)
(***************************************************************************)
Init ==
    \E c \in CategoryConfigs("any", MaxKeys, FALSE, Requests(Grouped(MaxSpawn)))
             \cup SimpleConfigs("any", Requests(Grouped(MaxSpawn))) : Start(c)

Spec == Init /\ [][Next]_vars

(***************************************************************************)
(* Batches of up to MaxItems items of several kinds, at most MaxSpawn of   *)
(* them starting a goroutine, against a provider that limits the first     *)
(* credential and serves the others (the single-credential program: that   *)
(* serves every search).                                                   *)
(***************************************************************************)
InputInit ==
    \E c \in CategoryConfigs("rotate", MaxKeys, FALSE, Requests(Batches("category", Items, MaxItems)))
             \cup SimpleConfigs("ok", Requests(Batches("simple", Items, MaxItems))) : Start(c)

InputSpec == InputInit /\ [][Next]_vars

(***************************************************************************)
(* Batches larger than the semaphore: SemItems items that all start a      *)
(* goroutine, with a provider that serves every search and with one that   *)
(* limits every search.                                                    *)
(***************************************************************************)
SemRequests == {[h \in {1} |-> BatchOf(Repeat(Chair, SemItems))]}

SemInit ==
    \E c \in CategoryConfigs("ok", 1, FALSE, SemRequests)
             \cup CategoryConfigs("quota", 1, FALSE, SemRequests)
             \cup SimpleConfigs("ok", SemRequests)
             \cup SimpleConfigs("quota", SemRequests) : Start(c)

SemSpec == SemInit /\ [][Next]_vars

(***************************************************************************)
(* Batches of every size up to one more than the semaphore holds, under a  *)
(* scheduler that runs some goroutine whenever one can run; every request  *)
(* ends, by a response or by the timeout of main.go:86, and every          *)
(* time.Sleep elapses.                                                     *)
(***************************************************************************)
LiveRequests == {[h \in {1} |-> BatchOf(Repeat(Chair, n))] : n \in 0 .. SemCap + 1}

LiveInit ==
    \E c \in CategoryConfigs("ok", 1, FALSE, LiveRequests)
             \cup CategoryConfigs("quota", 1, FALSE, LiveRequests)
             \cup SimpleConfigs("ok", LiveRequests)
             \cup SimpleConfigs("quota", LiveRequests) : Start(c)

LiveSpec == LiveInit /\ [][Next]_vars /\ WF_vars(Next)

(***************************************************************************)
(* Several /batch requests served at once by one process.  In a crowd, n   *)
(* handlers start one goroutine more than a semaphore holds: all but one   *)
(* of them in the first batch when n is 2, and one fewer there for each    *)
(* further handler; the provider serves every search.  In a round, each of *)
(* n handlers has a batch of one item, and the provider limits the first   *)
(* credential and serves the others.                                       *)
(***************************************************************************)
CrowdRequests ==
    {[h \in 1 .. n |->
        BatchOf(Repeat(Chair, IF h = 1 THEN SemCap + 2 - n ELSE 1))] :
       n \in 2 .. MaxHandlers}

RoundRequests == {[h \in 1 .. n |-> BatchOf(<<Chair>>)] : n \in 2 .. MaxHandlers}

MultiInit ==
    \E c \in CategoryConfigs("ok", 1, FALSE, CrowdRequests)
             \cup CategoryConfigs("rotate", MaxKeys, FALSE, RoundRequests)
             \cup SimpleConfigs("ok", RoundRequests) : Start(c)

MultiSpec == MultiInit /\ [][Next]_vars

(***************************************************************************)
(* A provider whose answer is a function of the credential, and batches    *)
(* of one item.                                                            *)
(***************************************************************************)
SingleRequests == {[h \in {1} |-> BatchOf(<<it>>)] : it \in AllItems}

FixedInit ==
    \E c \in CategoryConfigs("fixed", MaxKeys, TRUE, SingleRequests)
             \cup SimpleConfigs("fixed", SingleRequests) : Start(c)

FixedSpec == FixedInit /\ [][Next]_vars

(***************************************************************************)
(* Properties.                                                             *)
(***************************************************************************)
GoroutinesOf(h) == {w \in Goroutines : w[1] = h}

\* the goroutines of h inside a getImages call
InGetImages(h) ==
    {w \in GoroutinesOf(h) : g[w].pc \in {"getImages", "nextKey", "request", "simpleGet"}}

\* the goroutines of h between sem <- struct{}{} and <-sem
Holders(h) ==
    {w \in GoroutinesOf(h) :
       g[w].pc \in {"getImages", "nextKey", "request", "simpleGet", "mu", "store",
                    "sleep", "release"}}

\* C1: while a batch is processed, at most 4 of its goroutines are inside
\* getImages, in both programs; the slots taken are the goroutines between
\* acquire and release, and with 4 slots taken no waiting goroutine can acquire
C1_ConcurrencyBound ==
    \A h \in Handlers :
      /\ Cardinality(InGetImages(h)) <= 4
      /\ Cardinality(Holders(h)) = sem[h]
      /\ sem[h] <= 4
      /\ sem[h] = 4 => \A w \in GoroutinesOf(h) : g[w].pc = "sem" => ~ENABLED semAcquire(w)

\* four requests in flight and a fifth goroutine waiting for a slot
C1_Witness ==
    \E h \in Handlers :
      /\ Cardinality({w \in GoroutinesOf(h) : g[w].pc = "request"}) = 4
      /\ \E w \in GoroutinesOf(h) : g[w].pc = "sem"

\* the handler is encoding the result map or has responded
Encoding(h) == hpc[h] \in {"encode", "done"}

\* C2: encoding begins only after every goroutine started for the batch has
\* finished (result recorded, delay elapsed, slot released, wg.Done called): the
\* items without a finished goroutine are the skipped ones, nothing is held,
\* and from then on no step changes the result map
C2_JoinBarrier ==
    /\ [](\A h \in Handlers :
            Encoding(h) =>
              /\ \A w \in GoroutinesOf(h) :
                   \/ g[w].pc = "exit"
                   \/ g[w].pc = "unborn" /\ (Mismatch(req[h]) \/ SkipItem(h, w[2]))
              /\ wg[h] = 0 /\ sem[h] = 0 /\ mu[h] = NoOne)
    /\ [][\A h \in Handlers : Encoding(h) => results'[h] = results[h]]_vars

\* a batch whose two goroutines have both recorded a result is being encoded
C2_Witness ==
    \E h \in Handlers :
      /\ hpc[h] = "encode"
      /\ Cardinality({w \in GoroutinesOf(h) : g[w].pc = "exit"}) = 2
      /\ Cardinality(DOMAIN results[h]) = 2

\* C3: nextKey is round-robin and wraps: in the order in which the callers
\* held keyMu, each call returns the credential at the pool position after the
\* one before it (mod N), so N consecutive calls return N different positions
\* in pool order, the (N+1)th call returns what the first returned, and the
\* cursor stands at the position after the last one returned
C3_RoundRobin ==
    LET N == Len(googleKeys)
    IN  /\ \A j \in 1 .. Len(handed) :
             /\ handed[j].pos \in 0 .. N - 1
             /\ handed[j].key = googleKeys[handed[j].pos + 1]
        /\ \A j \in 1 .. Len(handed) - 1 : handed[j + 1].pos = (handed[j].pos + 1) % N
        /\ \A j, k \in 1 .. Len(handed) :
             j < k /\ k <= N => handed[j].pos # handed[k].pos
        /\ Len(handed) = N + 1 => handed[N + 1] = handed[1]
        /\ handed # <<>> => keyIndex = (handed[Len(handed)].pos + 1) % N

\* a pool of two credentials, started at its second position, has handed out
\* three credentials to two concurrent callers
C3_Witness ==
    /\ Len(googleKeys) = 2
    /\ Len(handed) = 3
    /\ handed[1].pos = 1
    /\ Cardinality({w \in Goroutines : g[w].pc \in {"getImages", "nextKey", "request"}}) = 2

\* the goroutines inside the getImages of main.go
InCall(w) == variant = "category" /\ g[w].pc \in {"getImages", "nextKey", "request"}

\* C4: one getImages call takes at most len(googleKeys) credentials, it
\* returns the exhaustion error only with the loop count at len(googleKeys),
\* and once it got a fatal response it has returned the provider's error and
\* takes no further credential
C4_AttemptBound ==
    \A w \in Goroutines :
      variant = "category" =>
        /\ g[w].attempts <= Len(googleKeys)
        /\ g[w].i <= Len(googleKeys)
        /\ InCall(w) => g[w].attempts = g[w].i + (IF g[w].pc = "request" THEN 1 ELSE 0)
        /\ g[w].fatal => /\ ~InCall(w)
                        /\ g[w].attempts = 0
                        /\ g[w].err = ErrGoogle
                        /\ g[w].pc \in {"sleep", "release", "wgDone", "exit"}

\* with two credentials, one call is at its second attempt while another has
\* ended on a fatal response
C4_Witness ==
    /\ variant = "category"
    /\ Len(googleKeys) = 2
    /\ \E w \in Goroutines : g[w].pc = "request" /\ g[w].attempts = 2
    /\ \E w \in Goroutines : g[w].fatal

\* the request of h decodes and its queries and categories differ in length
Mismatched(h) ==
    /\ variant = "category"
    /\ req[h].method = "POST"
    /\ req[h].json
    /\ Len(req[h].Queries) # Len(req[h].Categories)

\* C5: a batch whose queries and categories differ in length is answered with
\* HTTP 400 before any work starts: no goroutine is started, nothing is taken
\* or counted, no credential is handed out, the cursor keeps its value and the
\* response carries no result map
C5_MismatchRejected ==
    /\ [](\A h \in Handlers :
            Mismatched(h) =>
              /\ hpc[h] \in {"start", "done"}
              /\ \A w \in GoroutinesOf(h) : g[w].pc = "unborn"
              /\ wg[h] = 0 /\ sem[h] = 0 /\ results[h] = <<>>
              /\ handed = <<>>
              /\ hpc[h] = "start" => status[h] = 0
              /\ hpc[h] = "done" =>
                   /\ status[h] = 400
                   /\ body[h] = Body("queries and categories count mismatch", <<>>))
    /\ [][(\A h \in Handlers : Mismatched(h)) => keyIndex' = keyIndex]_vars

\* a batch of one query and two categories has been answered
C5_Witness ==
    \E h \in Handlers :
      /\ Mismatched(h)
      /\ Len(req[h].Queries) = 1 /\ Len(req[h].Categories) = 2
      /\ hpc[h] = "done"

\* the request of h is a batch that passes validation
Valid(h) ==
    /\ req[h].method = "POST"
    /\ req[h].json
    /\ variant = "category" => Len(req[h].Queries) = Len(req[h].Categories)

\* the handler has answered a valid batch
Answered(h) == Valid(h) /\ hpc[h] = "done"

\* C6: an empty or whitespace-only query is always excluded, in both
\* programs: the result map never has the empty string as a key, neither
\* while it is built nor in the response, and no goroutine is started for such
\* an item
C6_BlankExcluded ==
    \A h \in Handlers :
      /\ <<>> \notin DOMAIN results[h]
      /\ <<>> \notin DOMAIN body[h].map
      /\ \A w \in GoroutinesOf(h) :
           TrimSpace(req[h].Queries[w[2]]) = <<>> => g[w].pc = "unborn"

\* C6 as it holds of the single-credential program alone
C6_SimpleOnly == variant = "simple" => C6_BlankExcluded

\* C7: every key of the map returned for a valid batch is the trimmed form of
\* a non-empty input query whose category resolves, and an item whose
\* category does not resolve starts no goroutine
C7_KeysFromResolvedNonEmpty ==
    \A h \in Handlers :
      variant = "category" /\ Valid(h) =>
        /\ \A key \in DOMAIN body[h].map :
             \E i \in 1 .. Len(req[h].Queries) :
               /\ req[h].Queries[i] # <<>>
               /\ TrimSpace(req[h].Queries[i]) = key
               /\ ResolveCX(TrimSpace(req[h].Categories[i])) # ""
        /\ \A w \in GoroutinesOf(h) :
             ResolveCX(TrimSpace(req[h].Categories[w[2]])) = "" => g[w].pc = "unborn"

\* the goroutines of h whose search has succeeded / has failed
Succeeded(h) == {w \in GoroutinesOf(h) : g[w].pc = "exit" /\ g[w].err = ""}
Failed(h) == {w \in GoroutinesOf(h) : g[w].pc = "exit" /\ g[w].err # ""}

\* C8 as stated: a valid batch is answered with HTTP 200 and the entry of
\* every item whose search succeeded, and the query of an item whose search
\* failed is not a key of the map
C8_FailedAbsent ==
    \A h \in Handlers :
      Answered(h) =>
        /\ status[h] = 200
        /\ \A w \in Succeeded(h) :
             g[w].q \in DOMAIN body[h].map /\ body[h].map[g[w].q] = OkLinks.links
        /\ \A w \in Failed(h) : g[w].q \notin DOMAIN body[h].map

\* C8 as amended: a valid batch is answered with HTTP 200 and a map that holds
\* exactly the entries of the items whose search succeeded: a failed search
\* adds no key and removes none, so the query of a failed item is a key only
\* when another item with the same trimmed query succeeded
C8_PartialFailure ==
    \A h \in Handlers :
      Answered(h) =>
        /\ status[h] = 200
        /\ body[h].text = ""
        /\ DOMAIN body[h].map = {g[w].q : w \in Succeeded(h)}
        /\ \A key \in DOMAIN body[h].map : body[h].map[key] = OkLinks.links

\* a batch of two different queries, one exhausted and one served, answered
\* with the served one alone
C8_Witness ==
    \E h \in Handlers :
      /\ Answered(h)
      /\ \E w \in Failed(h) : g[w].err = ErrExhausted /\ g[w].q = <<"chair">>
      /\ \E w \in Succeeded(h) : g[w].q = <<"floor", " ", "lamp">>
      /\ DOMAIN body[h].map = {<<"floor", " ", "lamp">>}

\* C10: when every search of a valid batch succeeded, the keys of the
\* returned map are exactly the trimmed queries of the items whose category
\* resolves
C10_KeysOfResolved ==
    \A h \in Handlers :
      variant = "category" /\ Answered(h) /\ Failed(h) = {} =>
        DOMAIN body[h].map =
          {TrimSpace(req[h].Queries[i]) :
             i \in {k \in 1 .. Len(req[h].Queries) :
                      ResolveCX(TrimSpace(req[h].Categories[k])) # ""}}

\* three different queries, one with an unknown category: exactly two keys
C10_Witness ==
    \E h \in Handlers :
      /\ variant = "category" /\ Answered(h) /\ Failed(h) = {}
      /\ Len(req[h].Queries) = 3
      /\ Cardinality({TrimSpace(req[h].Queries[i]) : i \in 1 .. 3}) = 3
      /\ Cardinality({i \in 1 .. 3 : ResolveCX(TrimSpace(req[h].Categories[i])) = ""}) = 1
      /\ Cardinality(DOMAIN body[h].map) = 2

\* every answer to credential k is HTTP 200 with links L and no quota text
Serves(k, L) ==
    \A r \in provider[k] :
      ~r.err /\ r.status = 200 /\ ~r.quota /\ r.json /\ r.links = L

\* every answer to credential k is a retryable failure
Limits(k) == \A r \in provider[k] : r.err \/ r.status = 429 \/ r.quota

\* C9: a batch of one item whose category resolves, a pool in which at least
\* one credential serves links L and every other one fails retryably: the
\* returned map is exactly {query: L}, wherever the cursor started
C9_RotationFindsServingKey ==
    \A h \in Handlers : \A L \in {r.links : r \in AllResponses} :
      /\ variant = "category"
      /\ Answered(h)
      /\ Len(req[h].Queries) = 1
      /\ ResolveCX(TrimSpace(req[h].Categories[1])) # ""
      /\ \E k \in Range(googleKeys) : Serves(k, L)
      /\ \A k \in Range(googleKeys) : Serves(k, L) \/ Limits(k)
      => body[h].map = (TrimSpace(req[h].Queries[1]) :> L)

\* pool [k1, k2] with the cursor on k1, "chair" limited on k1 and served by k2
\* with [u1, u2]: the answer is {"chair": [u1, u2]}
C9_Witness ==
    \E h \in Handlers :
      /\ variant = "category"
      /\ Answered(h)
      /\ googleKeys = <<"k1", "k2">>
      /\ provider["k1"] = {TooManyRequests}
      /\ provider["k2"] = {OkLinks}
      /\ handed = <<[pos |-> 0, key |-> "k1"], [pos |-> 1, key |-> "k2"]>>
      /\ req[h].Queries = <<<<"chair">>>>
      /\ body[h].map = (<<"chair">> :> <<"u1", "u2">>)

\* the getImages call of w has left its loop without a result: it returns the
\* "all GOOGLE_KEYS exhausted" error (main.go:115)
Exhausting(w) ==
    variant = "category" /\ g[w].pc = "getImages" /\ g[w].i >= Len(googleKeys)

\* C11: a call returns the exhausted error only after it has itself tried
\* every distinct credential of the pool, also when other calls advance the
\* cursor between its attempts
C11_ExhaustedTriedAll ==
    \A w \in Goroutines : Exhausting(w) => g[w].tried = Range(googleKeys)

\* the number of links getImages is called with (main.go:164, part_000:98)
Limit == 5

\* HTTP 200 with a payload that parses
OkParseable(r) == ~r.err /\ r.status = 200 /\ r.json

\* C12: when the one answer the provider gives to a credential is HTTP 200
\* with a parseable payload, whatever the text of its body, the response ends
\* the getImages call as a success with the links of the payload, in their
\* order, and the cursor stays where it is
C12_OkAlwaysSucceeds ==
    [][\A w \in Goroutines : \A r \in AllResponses :
         /\ variant = "category"
         /\ g[w].pc = "request" /\ g'[w].pc # "request"
         /\ provider[g[w].key] = {r}
         /\ OkParseable(r)
         => /\ g'[w].pc = "mu" /\ g'[w].err = "" /\ g'[w].imgs = r.links
            /\ keyIndex' = keyIndex]_vars

\* C13: every link list in the result map, and in the response, has at most
\* limit = 5 URLs
C13_AtMostLimit ==
    \A h \in Handlers :
      /\ \A key \in DOMAIN results[h] : Len(results[h][key]) <= Limit
      /\ \A key \in DOMAIN body[h].map : Len(body[h].map[key]) <= Limit

\* the provider's answer is a function of the credential
Deterministic == \A k \in DOMAIN provider : Cardinality(provider[k]) = 1
Answer(key) == CHOOSE r \in provider[key] : TRUE

\* main.go:71-116 run with no other caller of nextKey: the outcome of one
\* getImages call that starts its attempt i with the cursor at k, and the
\* cursor it leaves
RECURSIVE Alone(_, _)
Alone(i, k) ==
    IF ~MoreKeys(i) THEN [ok |-> FALSE, imgs |-> <<>>, cursor |-> k]
    ELSE LET r == Answer(googleKeys[k + 1])
             c == Classify(r)
             next == NextIndex(k, Len(googleKeys))
         IN  IF c = "retry" THEN Alone(i + 1, next)
             ELSE [ok |-> c = "ok", imgs |-> IF c = "ok" THEN r.links ELSE <<>>,
                   cursor |-> next]

\* main.go:144-173 under the schedule in which every goroutine finishes
\* before the next one is started: the result map after the items from i on,
\* from cursor k and map m
RECURSIVE OneByOne(_, _, _, _)
OneByOne(h, i, k, m) ==
    IF i > Len(req[h].Queries) THEN m
    ELSE IF SkipItem(h, i) THEN OneByOne(h, i + 1, k, m)
    ELSE LET a == Alone(0, k)
             q == TrimSpace(req[h].Queries[i])
         IN  OneByOne(h, i + 1, a.cursor, IF a.ok THEN (q :> a.imgs) @@ m ELSE m)

\* C14: for a valid batch and a provider whose answer is a function of the
\* credential, every interleaving of the goroutines gives the same final map:
\* the one of the schedule that runs them one by one from the cursor of startup
C14_ScheduleIndependent ==
    \A h \in Handlers :
      variant = "category" /\ Deterministic /\ Answered(h) =>
        body[h].map = OneByOne(h, 1, 0, <<>>)

\* every handler has responded, every goroutine it started has signalled
\* completion, and nothing is held
Completed ==
    \A h \in Handlers :
      /\ hpc[h] = "done"
      /\ \A w \in GoroutinesOf(h) : g[w].pc \in {"unborn", "exit"}
      /\ sem[h] = 0 /\ wg[h] = 0 /\ mu[h] = NoOne

\* C15: under fair scheduling every batch, of more than 4 items too, runs to
\* completion: every goroutine gets its slot, makes at most len(googleKeys)
\* attempts (one in the single-credential program), releases the slot and signals completion, and the handler
\* responds; the only states without a next step are the completed ones, and
\* a handler that has responded holds no slot
C15_RunsToCompletion ==
    /\ <>[]Completed
    /\ [](Completed \/ ENABLED Next)
    /\ [](\A h \in Handlers : hpc[h] = "done" => sem[h] = 0)
    /\ [](\A w \in Goroutines :
            g[w].attempts <= IF variant = "category" THEN Len(googleKeys) ELSE 1)

\* a batch of more than 4 items, every search exhausted, has been answered
C15_Witness ==
    /\ Completed
    /\ \E h \in Handlers :
         /\ Cardinality({w \in GoroutinesOf(h) : g[w].pc = "exit"}) > SemCap
         /\ \A w \in GoroutinesOf(h) : g[w].err = ErrExhausted

\* the goroutines of the process whose provider call is in flight
InFlight == {w \in Goroutines : g[w].pc = "request"}

\* C18: at most 4 provider calls are in flight at any time in the whole
\* process, also when several /batch requests are handled at once
C18_ProcessWideBound == Cardinality(InFlight) <= SemCap

\* C16: at most one goroutine at a time is inside the insert into a result
\* map and at most one inside nextKey's read-and-advance of the cursor, which
\* is one step under keyMu; a goroutine holds mu only inside the insert and
\* keyMu only inside nextKey, so neither while its request is in flight nor
\* during its delay
C16_CriticalSections ==
    /\ [](/\ \A h \in Handlers :
               Cardinality({w \in GoroutinesOf(h) : g[w].pc = "store"}) <= 1
          /\ Cardinality({w \in Goroutines : g[w].pc = "nextKey"}) <= 1
          /\ \A w \in Goroutines :
               /\ keyMu = w <=> g[w].pc = "nextKey"
               /\ mu[w[1]] = w <=> g[w].pc = "store"
               /\ g[w].pc \in {"request", "simpleGet", "sleep"} =>
                    keyMu # w /\ mu[w[1]] # w)
    /\ [][\A w \in Goroutines :
            g[w].pc = "nextKey" /\ g'[w].pc # "nextKey" =>
              /\ g'[w].key = googleKeys[keyIndex + 1]
              /\ keyIndex' = (keyIndex + 1) % Len(googleKeys)
              /\ keyMu' = NoOne]_vars
    /\ [][keyIndex' # keyIndex =>
            \E w \in Goroutines : keyMu = w /\ g'[w].pc = "request"]_vars

\* one goroutine is inside nextKey, on its second attempt, while another one
\* waits for keyMu
C16_Witness ==
    \E w \in Goroutines : \E v \in Goroutines \ {w} :
         /\ g[w].pc = "nextKey" /\ g[v].pc = "getImages"
         /\ g[v].i < Len(googleKeys) /\ ~ENABLED nextKeyLock(v)
         /\ g[w].i = 1

\* the positions of an item goroutine in the order they are passed
Order ==
    {<<"unborn", "sem">>,
     <<"sem", "getImages">>, <<"sem", "simpleGet">>,
     <<"getImages", "nextKey">>, <<"nextKey", "request">>,
     <<"request", "getImages">>, <<"simpleGet", "request">>,
     <<"getImages", "mu">>, <<"getImages", "sleep">>,
     <<"request", "mu">>, <<"request", "sleep">>, <<"simpleGet", "sleep">>,
     <<"mu", "store">>, <<"store", "sleep">>,
     <<"sleep", "release">>, <<"release", "wgDone">>, <<"wgDone", "exit">>}

\* the positions of a goroutine that holds a slot
Slotted == {"getImages", "nextKey", "request", "simpleGet", "mu", "store", "sleep", "release"}

\* C17: every goroutine acquires its slot, searches, inserts into the map if
\* the search succeeded, delays, releases the slot and signals completion, in
\* this order; it delays after a failed search as after a successful one, and
\* the slot is released only by a goroutine whose delay has elapsed
C17_SlotHeldThroughDelay ==
    /\ [](\A h \in Handlers :
            sem[h] = Cardinality({w \in GoroutinesOf(h) : g[w].pc \in Slotted}))
    /\ [][\A w \in Goroutines :
            g'[w].pc # g[w].pc =>
              /\ <<g[w].pc, g'[w].pc>> \in Order
              /\ g'[w].pc = "mu" => g'[w].err = ""
              /\ g[w].pc # "store" /\ g'[w].pc = "sleep" => g'[w].err # ""
              /\ sem'[w[1]] = sem[w[1]] + (IF g[w].pc = "sem" THEN 1 ELSE 0)
                                        - (IF g[w].pc = "release" THEN 1 ELSE 0)
              /\ wg'[w[1]] = wg[w[1]] + (IF g[w].pc = "unborn" THEN 1 ELSE 0)
                                      - (IF g[w].pc = "wgDone" THEN 1 ELSE 0)]_vars

\* a goroutine whose search failed is in its delay and holds its slot, next
\* to one whose search succeeded
C17_Witness ==
    \E w \in Goroutines : \E v \in Goroutines \ {w} :
      /\ g[w].pc = "sleep" /\ g[w].err = ErrExhausted
      /\ g[v].pc = "sleep" /\ g[v].err = ""
      /\ w[1] = v[1] /\ sem[w[1]] = 2

\* the handler is about to pass an item whose category is unknown or has no
\* configured scope id
AtUnresolved(h) ==
    /\ variant = "category"
    /\ hpc[h] = "loop"
    /\ ResolveCX(TrimSpace(req[h].Categories[idx[h]])) = ""

\* C19: passing an item whose category does not resolve leaves the cursor,
\* the credentials handed out, the semaphore, the wait group, the goroutines
\* and the result map as they are
C19_SkipChangesNothing ==
    [][\A h \in Handlers :
         AtUnresolved(h) /\ idx'[h] # idx[h] =>
           /\ idx'[h] = idx[h] + 1
           /\ UNCHANGED <<keyIndex, keyMu, handed, sem, wg, mu, g, results, status, body>>]_vars

\* a batch whose unknown-category item was passed between two started items
C19_Witness ==
    \E h \in Handlers :
      /\ variant = "category" /\ hpc[h] = "wait"
      /\ Len(req[h].Queries) = 3
      /\ ResolveCX(TrimSpace(req[h].Categories[2])) = ""
      /\ g[<<h, 2>>].pc = "unborn"
      /\ g[<<h, 1>>].pc # "unborn" /\ g[<<h, 3>>].pc # "unborn"

\* C20: with a non-empty pool the cursor is always a valid position of the
\* pool, whatever number of goroutines of whatever number of batches call
\* nextKey, and the credentials never change
C20_CursorInRange ==
    /\ [](variant = "category" => keyIndex \in 0 .. Len(googleKeys) - 1)
    /\ [][googleKeys' = googleKeys]_vars

\* goroutines of two batches hold credentials at once and the cursor has
\* wrapped round to the start of a pool of two
C20_Witness ==
    /\ Len(googleKeys) = 2 /\ keyIndex = 0
    /\ handed = <<[pos |-> 0, key |-> "k1"], [pos |-> 1, key |-> "k2"]>>
    /\ \E w \in Goroutines : \E v \in Goroutines :
         w[1] # v[1] /\ g[w].pc = "request" /\ g[v].pc = "request"

====
